---- MODULE Spec2Model ----
(***************************************************************************)
(* A model of the generic container Result[T] of tzzed/go-result: the two  *)
(* constructors Ok and Err, the inspectors IsOk, IsErr and Error, and the  *)
(* extractors Unwrap, Expect, UnwrapOr and UnwrapOrErr.                    *)
(*                                                                         *)
(* T is instantiated with int.  An error is an interface value: it is      *)
(* modelled by its identity (a positive number; Nil is the nil interface)  *)
(* and the text its Error() method returns (ErrorText).  Two errors may    *)
(* have the same text and still be different values.                       *)
(*                                                                         *)
(* One instance is built and then called by several goroutines.  Every     *)
(* method has a value receiver, so a call is two steps: the receiver is    *)
(* copied into the callee's frame (Invoke), then the body runs on the      *)
(* copy (one action per method).  A panic is an outcome of the call; the   *)
(* caller is taken to recover it, so that later calls can be observed.     *)
(***************************************************************************)
EXTENDS Integers, Sequences, FiniteSets, TLC

VARIABLES res, ctor, frame, first, last, ncalls

vars == <<res, ctor, frame, first, last, ncalls>>

\* ------------------------------------------------------------- bounds
MaxVal == 1
NumThreads == 2
MaxCalls == 3

\* ------------------------------------------------------------- inputs
\* The zero value of T (`var zero T`), T = int.
Zero == 0
\* The nil error.
Nil == 0

Values == 0..MaxVal
Errors == {1, 2, 3}
MaybeErrors == Errors \cup {Nil}
Msgs == {"file does not exist", ""}
Threads == 1..NumThreads

\* e.Error() of a non-nil error e.  Errors 1 and 2 are distinct values with
\* the same text.
ErrorText(e) ==
    CASE e = 1 -> "cannot open file"
      [] e = 2 -> "cannot open file"
      [] e = 3 -> ""

\* ------------------------------------------------------------- the type
Result(v, e) == [value |-> v, err |-> e]

\* Result[T]{}: the struct's zero value.
ZeroResult == Result(Zero, Nil)

Ok(v) == Result(v, Nil)

\* Err with a bug: the error is not stored.
ErrDropsError(e) == Result(Zero, Nil)

\* Err with another behaviour: a nil argument is replaced by an error.
ErrRejectsNil(e) == Result(Zero, IF e = Nil THEN 1 ELSE e)

Err(e) == Result(Zero, e)

\* ------------------------------------------------------------- outcomes
Ret(x) == [kind |-> "return", val |-> x]
Panic(m) == [kind |-> "panic", val |-> m]

\* ------------------------------------------------------------- methods
\* IsOk with a bug: the comparison is inverted.
IsOkInverted(r) == r.err # Nil

IsOk(r) == r.err = Nil

\* IsErr with a bug: a failure is recognised by its zero value.
IsErrByValue(r) == r.value = Zero

IsErr(r) == r.err # Nil

\* Error with a bug: the stored error is not returned.
ErrorAlwaysNil(r) == Nil

Error(r) == r.err

\* Unwrap with a bug: no panic, the zero value is returned as a sentinel.
UnwrapNoPanic(r) == Ret(r.value)

Unwrap(r) ==
    IF r.err # Nil
    THEN Panic("called Unwrap on Err: " \o ErrorText(r.err))
    ELSE Ret(r.value)

\* Expect with a bug: the panic carries the message without the error's text.
ExpectDropsError(r, msg) ==
    IF r.err # Nil
    THEN Panic(msg)
    ELSE Ret(r.value)

Expect(r, msg) ==
    IF r.err # Nil
    THEN Panic(msg \o ": " \o ErrorText(r.err))
    ELSE Ret(r.value)

\* UnwrapOr with a bug: the test is inverted.
UnwrapOrInverted(r, def) ==
    IF r.err = Nil
    THEN def
    ELSE r.value

UnwrapOr(r, def) ==
    IF r.err # Nil
    THEN def
    ELSE r.value

\* UnwrapOrErr with a bug: the stored error is returned, not the new one.
UnwrapOrErrKeepsError(r, newErr) ==
    IF r.err # Nil
    THEN <<Zero, r.err>>
    ELSE <<r.value, Nil>>

UnwrapOrErr(r, newErr) ==
    IF r.err # Nil
    THEN <<Zero, newErr>>
    ELSE <<r.value, Nil>>

\* With a bug: a pointer receiver, and UnwrapOrErr replaces the stored error
\* by the new one in the instance itself.
AfterCallReplacesError(r, c) ==
    IF c.op = "UnwrapOrErr" /\ r.err # Nil
    THEN [r EXCEPT !.err = c.e]
    ELSE r

\* The caller's instance once method c has returned: the receiver is a copy
\* and no body assigns to a field, so the instance is what it was.
AfterCall(r, c) == r

\* ------------------------------------------------------------- calls
Call(op, v, e, msg) == [op |-> op, v |-> v, e |-> e, msg |-> msg]
NoCall == Call("none", Zero, Nil, "")
Calls ==
    {Call(op, Zero, Nil, "") : op \in {"IsOk", "IsErr", "Error", "Unwrap"}}
    \cup {Call("Expect", Zero, Nil, m) : m \in Msgs}
    \cup {Call("UnwrapOr", d, Nil, "") : d \in Values}
    \cup {Call("UnwrapOrErr", Zero, e, "") : e \in MaybeErrors}

NoCtor == [kind |-> "none", v |-> Zero, e |-> Nil]
NoFrame == [call |-> NoCall, self |-> ZeroResult]
NoLast == [call |-> NoCall, out |-> Ret(Zero), self |-> ZeroResult]

\* ------------------------------------------------------------- the program
Init ==
    /\ res = ZeroResult
    /\ ctor = NoCtor
    /\ frame = [t \in Threads |-> NoFrame]
    /\ first = << >>
    /\ last = NoLast
    /\ ncalls = 0

\* res := Ok(v)
NewOk(v) ==
    /\ ctor.kind = "none"
    /\ res' = Ok(v)
    /\ ctor' = [kind |-> "Ok", v |-> v, e |-> Nil]
    /\ UNCHANGED <<frame, first, last, ncalls>>

\* res := Err[T](e)
NewErr(e) ==
    /\ ctor.kind = "none"
    /\ res' = Err(e)
    /\ ctor' = [kind |-> "Err", v |-> Zero, e |-> e]
    /\ UNCHANGED <<frame, first, last, ncalls>>

\* var res Result[T]: the instance is used as declared.
NewZero ==
    /\ ctor.kind = "none"
    /\ res' = ZeroResult
    /\ ctor' = [kind |-> "zero", v |-> Zero, e |-> Nil]
    /\ UNCHANGED <<frame, first, last, ncalls>>

\* Goroutine t calls method c.op on res: the receiver is passed by value.
Invoke(t, c) ==
    /\ ctor.kind # "none"
    /\ frame[t].call.op = "none"
    /\ ncalls < MaxCalls
    /\ frame' = [frame EXCEPT ![t] = [call |-> c, self |-> res]]
    /\ ncalls' = ncalls + 1
    /\ UNCHANGED <<res, ctor, first, last>>

\* The call of goroutine t ends with outcome o.
Complete(t, o) ==
    LET c == frame[t].call IN
    /\ last' = [call |-> c, out |-> o, self |-> frame[t].self]
    /\ first' = IF c \in DOMAIN first THEN first ELSE first @@ (c :> o)
    /\ res' = AfterCall(res, c)
    /\ frame' = [frame EXCEPT ![t] = NoFrame]
    /\ UNCHANGED <<ctor, ncalls>>

DoIsOk(t) ==
    /\ frame[t].call.op = "IsOk"
    /\ Complete(t, Ret(IsOk(frame[t].self)))

DoIsErr(t) ==
    /\ frame[t].call.op = "IsErr"
    /\ Complete(t, Ret(IsErr(frame[t].self)))

DoError(t) ==
    /\ frame[t].call.op = "Error"
    /\ Complete(t, Ret(Error(frame[t].self)))

DoUnwrap(t) ==
    /\ frame[t].call.op = "Unwrap"
    /\ Complete(t, Unwrap(frame[t].self))

DoExpect(t) ==
    /\ frame[t].call.op = "Expect"
    /\ Complete(t, Expect(frame[t].self, frame[t].call.msg))

DoUnwrapOr(t) ==
    /\ frame[t].call.op = "UnwrapOr"
    /\ Complete(t, Ret(UnwrapOr(frame[t].self, frame[t].call.v)))

DoUnwrapOrErr(t) ==
    /\ frame[t].call.op = "UnwrapOrErr"
    /\ Complete(t, Ret(UnwrapOrErr(frame[t].self, frame[t].call.e)))

Next ==
    \/ \E v \in Values : NewOk(v)
    \/ \E e \in MaybeErrors : NewErr(e)
    \/ NewZero
    \/ \E t \in Threads : \E c \in Calls : Invoke(t, c)
    \/ \E t \in Threads : DoIsOk(t)
    \/ \E t \in Threads : DoIsErr(t)
    \/ \E t \in Threads : DoError(t)
    \/ \E t \in Threads : DoUnwrap(t)
    \/ \E t \in Threads : DoExpect(t)
    \/ \E t \in Threads : DoUnwrapOr(t)
    \/ \E t \in Threads : DoUnwrapOrErr(t)

Spec == Init /\ [][Next]_vars

\* ------------------------------------------------------------- properties
\* The instance as its constructor built it.
Built ==
    CASE ctor.kind = "Ok" -> Ok(ctor.v)
      [] ctor.kind = "Err" -> Err(ctor.e)
      [] OTHER -> ZeroResult

IsOkCall == Call("IsOk", Zero, Nil, "")
IsErrCall == Call("IsErr", Zero, Nil, "")
ErrorCall == Call("Error", Zero, Nil, "")
UnwrapCall == Call("Unwrap", Zero, Nil, "")

\* The call that completed last was method op.
Did(op) == last.call.op = op

\* The instance was built by Ok(v).
BuiltOk == ctor.kind = "Ok"
\* The instance was built by Err(e) with a non-nil e.
BuiltErr == ctor.kind = "Err" /\ ctor.e # Nil
\* The instance was built by Err(nil).
BuiltErrNil == ctor.kind = "Err" /\ ctor.e = Nil

\* sub occurs in s.
Contains(s, sub) ==
    \/ Len(sub) = 0
    \/ \E i \in 1..(Len(s) - Len(sub) + 1) : SubSeq(s, i, i + Len(sub) - 1) = sub

HasPrefix(s, p) ==
    /\ Len(p) <= Len(s)
    /\ (Len(p) = 0 \/ SubSeq(s, 1, Len(p)) = p)

\* C1: on an instance built by Ok(v), for every v, IsOk() returns true,
\* IsErr() returns false and Error() returns nil.
C1_OkIsSuccess ==
    BuiltOk =>
        /\ Did("IsOk") => last.out = Ret(TRUE)
        /\ Did("IsErr") => last.out = Ret(FALSE)
        /\ Did("Error") => last.out = Ret(Nil)

C1_Witness ==
    /\ BuiltOk
    /\ ctor.v # Zero
    /\ {IsOkCall, IsErrCall, ErrorCall} \subseteq DOMAIN first

\* C2: on an instance built by Err(e), for every non-nil error e, IsErr()
\* returns true, IsOk() returns false and Error() returns e itself.
C2_ErrIsFailure ==
    BuiltErr =>
        /\ Did("IsErr") => last.out = Ret(TRUE)
        /\ Did("IsOk") => last.out = Ret(FALSE)
        /\ Did("Error") => last.out = Ret(ctor.e)

\* Error 2 has the text of error 1: Error() tells them apart.
C2_Witness ==
    /\ BuiltErr
    /\ ctor.e = 2
    /\ {IsOkCall, IsErrCall, ErrorCall} \subseteq DOMAIN first

\* C3: Unwrap() returns v on Ok(v) and does not panic; on a failure instance
\* it does not return: it panics with "called Unwrap on Err: " followed by
\* the text of the stored error.
C3_Unwrap ==
    Did("Unwrap") =>
        /\ BuiltOk => last.out.kind = "return" /\ last.out.val = ctor.v
        /\ BuiltErr =>
            /\ last.out.kind = "panic"
            /\ last.out.val = "called Unwrap on Err: " \o ErrorText(ctor.e)
            /\ HasPrefix(last.out.val, "called Unwrap on Err: ")
            /\ Contains(last.out.val, ErrorText(ctor.e))

C3_Witness ==
    /\ Did("Unwrap")
    /\ BuiltErr
    /\ ErrorText(ctor.e) # ""
    /\ last.out.kind = "panic"

\* C4: Expect(msg) returns v on Ok(v) for every msg and does not panic; on a
\* failure instance it does not return: it panics with msg, ": " and the text
\* of the stored error, so the diagnostic contains both texts.
C4_Expect ==
    Did("Expect") =>
        /\ BuiltOk => last.out.kind = "return" /\ last.out.val = ctor.v
        /\ BuiltErr =>
            /\ last.out.kind = "panic"
            /\ last.out.val = last.call.msg \o ": " \o ErrorText(ctor.e)
            /\ Contains(last.out.val, last.call.msg)
            /\ Contains(last.out.val, ErrorText(ctor.e))

C4_Witness ==
    /\ Did("Expect")
    /\ BuiltErr
    /\ last.call.msg # ""
    /\ ErrorText(ctor.e) # ""
    /\ last.out.kind = "panic"

\* C5: UnwrapOr(d) always returns: v on Ok(v) for every d, and d on a failure
\* instance, whichever error is stored.
C5_UnwrapOr ==
    Did("UnwrapOr") =>
        /\ last.out.kind = "return"
        /\ BuiltOk => last.out.val = ctor.v
        /\ BuiltErr => last.out.val = last.call.v

C5_Witness ==
    /\ Did("UnwrapOr")
    /\ BuiltErr
    /\ last.call.v # Zero
    /\ last.out = Ret(last.call.v)

\* C6: UnwrapOrErr(e2) always returns: (v, nil) on Ok(v) for every e2, and
\* (zero, e2) on Err(e) for every e2: the result is made of e2 alone, the
\* stored error e has no part in it.
C6_UnwrapOrErr ==
    Did("UnwrapOrErr") =>
        /\ last.out.kind = "return"
        /\ BuiltOk => last.out.val = <<ctor.v, Nil>>
        /\ BuiltErr =>
            /\ last.out.val = <<Zero, last.call.e>>
            /\ last.call.e # ctor.e => last.out.val[2] # ctor.e

C6_Witness ==
    /\ Did("UnwrapOrErr")
    /\ BuiltErr
    /\ last.call.e \notin {Nil, ctor.e}
    /\ last.out = Ret(<<Zero, last.call.e>>)

\* C7: on an instance built by Ok or Err, IsOk() and IsErr() never agree:
\* exactly one of them returns true.
C7_Complement ==
    ctor.kind \in {"Ok", "Err"} =>
        /\ IsOk(res) # IsErr(res)
        /\ {IsOkCall, IsErrCall} \subseteq DOMAIN first =>
            first[IsOkCall].val # first[IsErrCall].val
        /\ Did("IsOk") => last.out.val # IsErr(last.self)
        /\ Did("IsErr") => last.out.val # IsOk(last.self)

C7_Witness ==
    /\ BuiltOk
    /\ ctor.v = Zero
    /\ {IsOkCall, IsErrCall} \subseteq DOMAIN first
    /\ first[IsOkCall].val
    /\ ~first[IsErrCall].val

\* C8: the instance stays as constructed under any interleaving of method
\* calls by several goroutines, panicking calls included: its pair and its
\* success/failure state do not change, every call works on the pair as
\* constructed, and a repeated call has the outcome of the first such call.
C8_Immutable ==
    ctor.kind # "none" =>
        /\ res = Built
        /\ IsErr(res) = IsErr(Built)
        /\ \A t \in Threads :
            frame[t].call.op # "none" => frame[t].self = Built
        /\ last.call.op # "none" =>
            /\ last.self = Built
            /\ last.call \in DOMAIN first
            /\ last.out = first[last.call]

\* Two calls of one panicking method have completed and a third one is in
\* flight in another goroutine.
C8_Witness ==
    /\ BuiltErr
    /\ ncalls >= 3
    /\ Cardinality(DOMAIN first) = 1
    /\ last.out.kind = "panic"
    /\ Cardinality({t \in Threads : frame[t].call = last.call}) = 1

\* C9: Err(nil) is not rejected and builds what Ok(zero) builds: IsOk() is
\* true, IsErr() is false, Error() is nil, Unwrap() and Expect(msg) return
\* zero and do not panic, UnwrapOr(d) returns zero and not d, and
\* UnwrapOrErr(e2) returns (zero, nil).
C9_ErrNil ==
    BuiltErrNil =>
        /\ res = Ok(Zero)
        /\ Did("IsOk") => last.out = Ret(TRUE)
        /\ Did("IsErr") => last.out = Ret(FALSE)
        /\ Did("Error") => last.out = Ret(Nil)
        /\ Did("Unwrap") => last.out = Ret(Zero)
        /\ Did("Expect") => last.out = Ret(Zero)
        /\ Did("UnwrapOr") => last.out = Ret(Zero)
        /\ Did("UnwrapOrErr") => last.out = Ret(<<Zero, Nil>>)

C9_Witness ==
    /\ BuiltErrNil
    /\ \/ Did("UnwrapOr") /\ last.call.v # Zero
       \/ Did("UnwrapOrErr") /\ last.call.e # Nil
    /\ UnwrapCall \in DOMAIN first
    /\ ncalls >= 3

\* C10: on every instance built by Ok, by Err (Err(nil) included) or as the
\* zero value of the struct, IsErr() returns true exactly when Error() returns
\* a non-nil error, so that an instance with IsErr() true never gives a nil
\* Error().
C10_IsErrIffError ==
    ctor.kind # "none" =>
        /\ IsErr(res) <=> Error(res) # Nil
        /\ {IsErrCall, ErrorCall} \subseteq DOMAIN first =>
            (first[IsErrCall].val <=> first[ErrorCall].val # Nil)
        /\ Did("IsErr") => (last.out.val <=> Error(last.self) # Nil)
        /\ Did("Error") => (last.out.val # Nil <=> IsErr(last.self))

C10_Witness ==
    /\ ctor.kind \in {"zero", "Err"}
    /\ ctor.e = Nil
    /\ {IsErrCall, ErrorCall} \subseteq DOMAIN first
    /\ ~first[IsErrCall].val

====
